---- MODULE Spec2Model ----
(***************************************************************************)
(* A model of fastnum's online estimators: RunningStats (Welford mean and  *)
(* variance), OnlineCovariance (bivariate Welford with a cross moment) and *)
(* OnlineStandardScaler (a RunningStats behind a readiness gate).          *)
(*                                                                         *)
(* Numbers.  The template parameter T is a floating-point type.  A value   *)
(* of T is modelled as a record [k, p, q]: k = "fin" is the rational p/q   *)
(* in lowest terms with q > 0, and k = "nan", "pinf", "ninf" are the IEEE  *)
(* specials.  The four operations follow IEEE 754 on the specials (inf -   *)
(* inf, 0 * inf, inf / inf and 0 / 0 are NaN, every comparison with NaN is *)
(* false) and are exact on finite operands as long as the result is within *)
(* the finite range of T, which the model takes to be [-MaxFinite,         *)
(* MaxFinite]; a result beyond it overflows to the infinity of its sign.   *)
(* Rounding and the sign of zero are not modelled.  Runs whose values stay *)
(* far below MaxFinite are therefore runs "in exact arithmetic".           *)
(*                                                                         *)
(* eps_.  The source sets eps_ to 1e-12, which TLC's 32-bit integers       *)
(* cannot hold as a rational.  The model keeps eps_ a positive rational    *)
(* below one, EpsNum / EpsDen, and the input values on the same scale.     *)
(***************************************************************************)
EXTENDS Integers, Sequences, FiniteSets

\* ------------------------------------------------------------------ bounds
MaxCount == 4      \* observations a pool of accumulators may hold in total
MaxStream == 5     \* longest stream of the single-pass run
EpsNum == 3        \* eps_ = EpsNum / EpsDen
EpsDen == 4
MaxFinite == 1000  \* the largest finite value of T

\* ----------------------------------------------------------------- numbers
RECURSIVE Gcd(_, _)
Gcd(a, b) == IF b = 0 THEN a ELSE Gcd(b, a % b)

Abs(i) == IF i < 0 THEN -i ELSE i

NaN  == [k |-> "nan",  p |-> 0, q |-> 1]
PInf == [k |-> "pinf", p |-> 0, q |-> 1]
NInf == [k |-> "ninf", p |-> 0, q |-> 1]

\* The value of T for the rational p/q (q # 0): p/q in lowest terms, or the
\* infinity of its sign when p/q is beyond the finite range.
Rat(p, q) ==
    LET s == IF q < 0 THEN -1 ELSE 1
        g == Gcd(Abs(p), Abs(q))
    IN  IF Abs(p) > MaxFinite * Abs(q)
        THEN (IF s * p > 0 THEN PInf ELSE NInf)
        ELSE [k |-> "fin", p |-> (s * p) \div g, q |-> (s * q) \div g]
Zero == Rat(0, 1)
One  == Rat(1, 1)

\* static_cast<T>(n) of a count.
ToT(n) == Rat(n, 1)

isnan(x)    == x.k = "nan"
IsFinite(x) == x.k = "fin"
IsInf(x)    == x.k \in {"pinf", "ninf"}

\* -1, 0, 1: the sign of a non-NaN value.
Sgn(x) ==
    CASE x.k = "pinf" -> 1
      [] x.k = "ninf" -> -1
      [] OTHER        -> IF x.p > 0 THEN 1 ELSE IF x.p < 0 THEN -1 ELSE 0

InfOf(s) == IF s > 0 THEN PInf ELSE NInf

Neg(x) ==
    CASE x.k = "nan"  -> NaN
      [] x.k = "pinf" -> NInf
      [] x.k = "ninf" -> PInf
      [] OTHER        -> Rat(-x.p, x.q)

Add(x, y) ==
    CASE isnan(x) \/ isnan(y)   -> NaN
      [] IsInf(x) /\ IsInf(y)   -> IF x.k = y.k THEN x ELSE NaN
      [] IsInf(x)               -> x
      [] IsInf(y)               -> y
      [] OTHER                  -> Rat(x.p * y.q + y.p * x.q, x.q * y.q)

Sub(x, y) == Add(x, Neg(y))

Mul(x, y) ==
    CASE isnan(x) \/ isnan(y)   -> NaN
      [] IsInf(x) \/ IsInf(y)   -> IF Sgn(x) = 0 \/ Sgn(y) = 0
                                   THEN NaN ELSE InfOf(Sgn(x) * Sgn(y))
      [] OTHER                  -> Rat(x.p * y.p, x.q * y.q)

Div(x, y) ==
    CASE isnan(x) \/ isnan(y)   -> NaN
      [] IsInf(x) /\ IsInf(y)   -> NaN
      [] IsInf(x)               -> InfOf(Sgn(x) * (IF Sgn(y) < 0 THEN -1 ELSE 1))
      [] IsInf(y)               -> Zero
      [] y.p = 0                -> IF x.p = 0 THEN NaN ELSE InfOf(Sgn(x))
      [] OTHER                  -> Rat(x.p * y.q, x.q * y.p)

\* x < y and x <= y; false when either is NaN.
Lt(x, y) ==
    /\ ~isnan(x) /\ ~isnan(y)
    /\ CASE x.k = "pinf" -> FALSE
         [] y.k = "ninf" -> FALSE
         [] x.k = "ninf" -> TRUE
         [] y.k = "pinf" -> TRUE
         [] OTHER        -> x.p * y.q < y.p * x.q

Le(x, y) == ~isnan(x) /\ ~isnan(y) /\ ~Lt(y, x)

\* ------------------------------------------------------------ RunningStats
\* The members n_{0}, mean_{0}, m2_{0}.
RunningStats_init == [n_ |-> 0, mean_ |-> Zero, m2_ |-> Zero]

\* Mutant: both deltas are taken against the old mean.
RunningStats_push_olddelta(s, x) ==
    LET n      == s.n_ + 1
        delta  == Sub(x, s.mean_)
        mean   == Add(s.mean_, Div(delta, ToT(n)))
    IN  [n_ |-> n, mean_ |-> mean, m2_ |-> Add(s.m2_, Mul(delta, delta))]

\* Mutant: the second moment is decremented instead of incremented.
RunningStats_push_m2sign(s, x) ==
    LET n      == s.n_ + 1
        delta  == Sub(x, s.mean_)
        mean   == Add(s.mean_, Div(delta, ToT(n)))
        delta2 == Sub(x, mean)
    IN  [n_ |-> n, mean_ |-> mean, m2_ |-> Sub(s.m2_, Mul(delta, delta2))]

\* Mutant: a NaN input is skipped.
RunningStats_push_skipnan(s, x) ==
    IF isnan(x) THEN s
    ELSE LET n      == s.n_ + 1
             delta  == Sub(x, s.mean_)
             mean   == Add(s.mean_, Div(delta, ToT(n)))
             delta2 == Sub(x, mean)
         IN  [n_ |-> n, mean_ |-> mean, m2_ |-> Add(s.m2_, Mul(delta, delta2))]

RunningStats_push(s, x) ==
    LET n      == s.n_ + 1
        delta  == Sub(x, s.mean_)
        mean   == Add(s.mean_, Div(delta, ToT(n)))
        delta2 == Sub(x, mean)
    IN  [n_ |-> n, mean_ |-> mean, m2_ |-> Add(s.m2_, Mul(delta, delta2))]

\* Mutant: the receiver's second moment is overwritten, not accumulated.
RunningStats_merge_m2assign(s, other) ==
    IF other.n_ = 0 THEN s
    ELSE IF s.n_ = 0 THEN other
    ELSE
      LET n_a     == ToT(s.n_)
          n_b     == ToT(other.n_)
          n_total == Add(n_a, n_b)
          delta   == Sub(other.mean_, s.mean_)
          mean    == Div(Add(Mul(n_a, s.mean_), Mul(n_b, other.mean_)), n_total)
          m2      == Add(other.m2_,
                         Mul(Mul(delta, delta), Div(Mul(n_a, n_b), n_total)))
      IN  [n_ |-> s.n_ + other.n_, mean_ |-> mean, m2_ |-> m2]

\* Mutant: the merged mean is the unweighted average of the two means.
RunningStats_merge_meanavg(s, other) ==
    IF other.n_ = 0 THEN s
    ELSE IF s.n_ = 0 THEN other
    ELSE
      LET n_a     == ToT(s.n_)
          n_b     == ToT(other.n_)
          n_total == Add(n_a, n_b)
          delta   == Sub(other.mean_, s.mean_)
          mean    == Div(Add(s.mean_, other.mean_), ToT(2))
          m2      == Add(s.m2_, Add(other.m2_,
                         Mul(Mul(delta, delta), Div(Mul(n_a, n_b), n_total))))
      IN  [n_ |-> s.n_ + other.n_, mean_ |-> mean, m2_ |-> m2]

\* Mutant: an empty receiver returns without copying other.
RunningStats_merge_nocopy(s, other) ==
    IF other.n_ = 0 \/ s.n_ = 0 THEN s
    ELSE
      LET n_a     == ToT(s.n_)
          n_b     == ToT(other.n_)
          n_total == Add(n_a, n_b)
          delta   == Sub(other.mean_, s.mean_)
          mean    == Div(Add(Mul(n_a, s.mean_), Mul(n_b, other.mean_)), n_total)
          m2      == Add(s.m2_, Add(other.m2_,
                         Mul(Mul(delta, delta), Div(Mul(n_a, n_b), n_total))))
      IN  [n_ |-> s.n_ + other.n_, mean_ |-> mean, m2_ |-> m2]

RunningStats_merge(s, other) ==
    IF other.n_ = 0 THEN s
    ELSE IF s.n_ = 0 THEN other
    ELSE
      LET n_a     == ToT(s.n_)
          n_b     == ToT(other.n_)
          n_total == Add(n_a, n_b)
          delta   == Sub(other.mean_, s.mean_)
          mean    == Div(Add(Mul(n_a, s.mean_), Mul(n_b, other.mean_)), n_total)
          m2      == Add(s.m2_, Add(other.m2_,
                         Mul(Mul(delta, delta), Div(Mul(n_a, n_b), n_total))))
      IN  [n_ |-> s.n_ + other.n_, mean_ |-> mean, m2_ |-> m2]

RunningStats_count(s) == s.n_
RunningStats_mean(s)  == s.mean_

\* Mutant: the population variance waits for a second observation.
RunningStats_variance_population_gate2(s) ==
    IF s.n_ < 2 THEN NaN ELSE Div(s.m2_, ToT(s.n_))

RunningStats_variance_population(s) ==
    IF s.n_ < 1 THEN NaN ELSE Div(s.m2_, ToT(s.n_))

RunningStats_variance_sample(s) ==
    IF s.n_ < 2 THEN NaN ELSE Div(s.m2_, ToT(s.n_ - 1))

\* Mutant: the mean survives the reset.
RunningStats_reset_keepmean(s) == [n_ |-> 0, mean_ |-> s.mean_, m2_ |-> Zero]

RunningStats_reset(s) == [n_ |-> 0, mean_ |-> Zero, m2_ |-> Zero]

RECURSIVE PushAll(_, _)
\* for (x : xs) s.push(x)
PushAll(s, xs) ==
    IF xs = <<>> THEN s ELSE PushAll(RunningStats_push(s, Head(xs)), Tail(xs))

\* ---------------------------------------------------- square-root results
(* std::sqrt of a rational is in general irrational, so a value computed   *)
(* through 1 / sqrt(v) is kept as the pair "p/q over the square root of    *)
(* v": [k, p, q, v].  A plain value x is x over sqrt(1).                   *)
ZNaN == [k |-> "nan", p |-> 0, q |-> 1, v |-> One]

Plain(x) == [k |-> x.k, p |-> x.p, q |-> x.q, v |-> One]

\* The plain value held in a buffer element.
Val(z) == [k |-> z.k, p |-> z.p, q |-> z.q]

\* d * (T{1} / std::sqrt(v))
MulInvSqrt(d, v) ==
    CASE isnan(d) \/ isnan(v) \/ Sgn(v) < 0 -> ZNaN
      [] v.k = "pinf" -> IF IsInf(d) THEN ZNaN ELSE Plain(Zero)
      [] Sgn(v) = 0   -> IF Sgn(d) = 0 THEN ZNaN ELSE Plain(InfOf(Sgn(d)))
      [] IsInf(d)     -> Plain(d)
      [] OTHER        -> [k |-> "fin", p |-> d.p, q |-> d.q, v |-> v]

\* std::sqrt(w) is NaN
SqrtIsNaN(w) == isnan(w) \/ Sgn(w) < 0

\* std::sqrt(w) <= e, for e > 0 and w for which the square root is defined
SqrtLe(w, e) == Le(w, Mul(e, e))

\* -1 <= z <= 1 for a value z = (p/q) / sqrt(v): (p/q)^2 <= v.
InUnitInterval(z) == z.k = "fin" /\ Le(Mul(Val(z), Val(z)), z.v)

\* ---------------------------------------------------- OnlineStandardScaler
eps_ == Rat(EpsNum, EpsDen)

\* The members stats_{} and eps_.
OnlineStandardScaler_init == [stats_ |-> RunningStats_init, eps_ |-> eps_]

OnlineStandardScaler_observe(sc, x) ==
    [sc EXCEPT !.stats_ = RunningStats_push(sc.stats_, x)]

\* Mutant: the guard is "!xs && n == 0"; with a null pointer and n > 0 the
\* loop runs and pushes whatever it reads, here NaN.
OnlineStandardScaler_observe_batch_andguard(sc, null, xs, n) ==
    IF null /\ n = 0 THEN sc
    ELSE IF null
    THEN [sc EXCEPT !.stats_ = PushAll(sc.stats_, [i \in 1..n |-> NaN])]
    ELSE [sc EXCEPT !.stats_ = PushAll(sc.stats_, SubSeq(xs, 1, n))]

\* Mutant: the loop stops one element short.
OnlineStandardScaler_observe_batch_shortloop(sc, null, xs, n) ==
    IF null \/ n = 0 THEN sc
    ELSE [sc EXCEPT !.stats_ = PushAll(sc.stats_, SubSeq(xs, 1, n - 1))]

\* observe(const T* xs, std::size_t n): null is the pointer being nullptr,
\* xs the n elements it points to.
OnlineStandardScaler_observe_batch(sc, null, xs, n) ==
    IF null \/ n = 0 THEN sc
    ELSE [sc EXCEPT !.stats_ = PushAll(sc.stats_, SubSeq(xs, 1, n))]

\* observe(const Container& c): c.data() of a container is not null unless
\* the container is empty, and then size() is 0.
OnlineStandardScaler_observe_container(sc, c) ==
    OnlineStandardScaler_observe_batch(sc, FALSE, c, Len(c))

OnlineStandardScaler_ready(sc) ==
    IF RunningStats_count(sc.stats_) < 2 THEN FALSE
    ELSE LET pop_var == RunningStats_variance_population(sc.stats_)
         IN  IF isnan(pop_var) THEN FALSE
             ELSE IF Le(pop_var, Mul(sc.eps_, sc.eps_)) THEN FALSE
             ELSE TRUE

OnlineStandardScaler_count(sc) == RunningStats_count(sc.stats_)
OnlineStandardScaler_mean(sc)  == RunningStats_mean(sc.stats_)

OnlineStandardScaler_transform(sc, x) ==
    IF ~OnlineStandardScaler_ready(sc) THEN ZNaN
    ELSE MulInvSqrt(Sub(x, RunningStats_mean(sc.stats_)),
                    RunningStats_variance_population(sc.stats_))

\* Mutant: the mean is not subtracted.
OnlineStandardScaler_transform_inplace_nomean(sc, null, buf, n) ==
    IF null \/ n = 0 THEN buf
    ELSE IF ~OnlineStandardScaler_ready(sc)
    THEN [i \in 1..Len(buf) |-> IF i <= n THEN ZNaN ELSE buf[i]]
    ELSE LET v == RunningStats_variance_population(sc.stats_)
         IN  [i \in 1..Len(buf) |->
                 IF i <= n THEN MulInvSqrt(Val(buf[i]), v) ELSE buf[i]]

OnlineStandardScaler_transform_inplace_nofill(sc, null, buf, n) ==
    IF null \/ n = 0 THEN buf
    ELSE IF ~OnlineStandardScaler_ready(sc)
    THEN buf
    ELSE LET mu == RunningStats_mean(sc.stats_)
             v  == RunningStats_variance_population(sc.stats_)
         IN  [i \in 1..Len(buf) |->
                 IF i <= n THEN MulInvSqrt(Sub(Val(buf[i]), mu), v) ELSE buf[i]]

\* transform_inplace(T* xs, std::size_t n): the buffer after the call; buf is
\* the caller's buffer, of at least n elements unless null.
OnlineStandardScaler_transform_inplace(sc, null, buf, n) ==
    IF null \/ n = 0 THEN buf
    ELSE IF ~OnlineStandardScaler_ready(sc)
    THEN [i \in 1..Len(buf) |-> IF i <= n THEN ZNaN ELSE buf[i]]
    ELSE LET mu == RunningStats_mean(sc.stats_)
             v  == RunningStats_variance_population(sc.stats_)
         IN  [i \in 1..Len(buf) |->
                 IF i <= n THEN MulInvSqrt(Sub(Val(buf[i]), mu), v) ELSE buf[i]]

OnlineStandardScaler_merge(sc, other) ==
    [sc EXCEPT !.stats_ = RunningStats_merge(sc.stats_, other.stats_)]

OnlineStandardScaler_reset(sc) ==
    [sc EXCEPT !.stats_ = RunningStats_reset(sc.stats_)]

\* -------------------------------------------------------- OnlineCovariance
\* The members n_{0}, mean_x_{0}, mean_y_{0}, m2_x_{0}, m2_y_{0}, c_{0}, eps_.
OnlineCovariance_init ==
    [n_ |-> 0, mean_x_ |-> Zero, mean_y_ |-> Zero,
     m2_x_ |-> Zero, m2_y_ |-> Zero, c_ |-> Zero, eps_ |-> eps_]

\* Mutant: the cross term pairs the two old deltas.
OnlineCovariance_observe_olddeltas(c, x, y) ==
    LET n     == c.n_ + 1
        dx    == Sub(x, c.mean_x_)
        dy    == Sub(y, c.mean_y_)
        inv_n == Div(One, ToT(n))
        mx    == Add(c.mean_x_, Mul(dx, inv_n))
        my    == Add(c.mean_y_, Mul(dy, inv_n))
        dx2   == Sub(x, mx)
        dy2   == Sub(y, my)
    IN  [c EXCEPT !.n_ = n, !.mean_x_ = mx, !.mean_y_ = my,
                  !.m2_x_ = Add(c.m2_x_, Mul(dx, dx2)),
                  !.m2_y_ = Add(c.m2_y_, Mul(dy, dy2)),
                  !.c_    = Add(c.c_, Mul(dx, dy))]

OnlineCovariance_observe(c, x, y) ==
    LET n     == c.n_ + 1
        dx    == Sub(x, c.mean_x_)
        dy    == Sub(y, c.mean_y_)
        inv_n == Div(One, ToT(n))
        mx    == Add(c.mean_x_, Mul(dx, inv_n))
        my    == Add(c.mean_y_, Mul(dy, inv_n))
        dx2   == Sub(x, mx)
        dy2   == Sub(y, my)
    IN  [c EXCEPT !.n_ = n, !.mean_x_ = mx, !.mean_y_ = my,
                  !.m2_x_ = Add(c.m2_x_, Mul(dx, dx2)),
                  !.m2_y_ = Add(c.m2_y_, Mul(dy, dy2)),
                  !.c_    = Add(c.c_, Mul(dx, dy2))]

RECURSIVE ObserveAll(_, _, _)
\* for (i = 0; i < n; ++i) observe(xs[i], ys[i])
ObserveAll(c, xs, ys) ==
    IF xs = <<>> THEN c
    ELSE ObserveAll(OnlineCovariance_observe(c, Head(xs), Head(ys)),
                    Tail(xs), Tail(ys))

\* observe(const T* xs, const T* ys, std::size_t n)
OnlineCovariance_observe_batch(c, xnull, ynull, xs, ys, n) ==
    IF xnull \/ ynull \/ n = 0 THEN c
    ELSE ObserveAll(c, SubSeq(xs, 1, n), SubSeq(ys, 1, n))

\* observe(const CX& xs, const CY& ys), for containers of equal size (the
\* assert of the code).
OnlineCovariance_observe_container(c, xs, ys) ==
    OnlineCovariance_observe_batch(c, FALSE, FALSE, xs, ys, Len(xs))

OnlineCovariance_count(c)  == c.n_
OnlineCovariance_mean_x(c) == c.mean_x_
OnlineCovariance_mean_y(c) == c.mean_y_

OnlineCovariance_variance_x_population(c) ==
    IF c.n_ < 1 THEN NaN ELSE Div(c.m2_x_, ToT(c.n_))

OnlineCovariance_variance_y_population(c) ==
    IF c.n_ < 1 THEN NaN ELSE Div(c.m2_y_, ToT(c.n_))

OnlineCovariance_variance_x_sample(c) ==
    IF c.n_ < 2 THEN NaN ELSE Div(c.m2_x_, ToT(c.n_ - 1))

OnlineCovariance_variance_y_sample(c) ==
    IF c.n_ < 2 THEN NaN ELSE Div(c.m2_y_, ToT(c.n_ - 1))

OnlineCovariance_covariance_population(c) ==
    IF c.n_ < 1 THEN NaN ELSE Div(c.c_, ToT(c.n_))

OnlineCovariance_covariance_sample(c) ==
    IF c.n_ < 2 THEN NaN ELSE Div(c.c_, ToT(c.n_ - 1))

OnlineCovariance_ready(c) ==
    IF c.n_ < 2 THEN FALSE
    ELSE LET vx == OnlineCovariance_variance_x_population(c)
             vy == OnlineCovariance_variance_y_population(c)
         IN  IF isnan(vx) \/ isnan(vy) THEN FALSE
             ELSE IF Le(vx, Mul(c.eps_, c.eps_)) \/ Le(vy, Mul(c.eps_, c.eps_))
                  THEN FALSE
             ELSE TRUE

OnlineCovariance_reset(c) ==
    [c EXCEPT !.n_ = 0, !.mean_x_ = Zero, !.mean_y_ = Zero,
              !.m2_x_ = Zero, !.m2_y_ = Zero, !.c_ = Zero]

\* Mutant: correlation() without its readiness gate.
OnlineCovariance_correlation_ungated(c) ==
    LET vx == OnlineCovariance_variance_x_population(c)
        vy == OnlineCovariance_variance_y_population(c)
        w  == Mul(vx, vy)
    IN  IF SqrtIsNaN(w) \/ SqrtLe(w, c.eps_) THEN ZNaN
        ELSE MulInvSqrt(OnlineCovariance_covariance_population(c), w)

\* Mutant: the sample covariance is divided by the population deviations.
OnlineCovariance_correlation_samplecov(c) ==
    IF ~OnlineCovariance_ready(c) THEN ZNaN
    ELSE LET vx == OnlineCovariance_variance_x_population(c)
             vy == OnlineCovariance_variance_y_population(c)
             w  == Mul(vx, vy)
         IN  IF SqrtIsNaN(w) \/ SqrtLe(w, c.eps_) THEN ZNaN
             ELSE MulInvSqrt(OnlineCovariance_covariance_sample(c), w)

\* denom = std::sqrt(vx * vy); the result is covariance_population() / denom.
OnlineCovariance_correlation(c) ==
    IF ~OnlineCovariance_ready(c) THEN ZNaN
    ELSE LET vx == OnlineCovariance_variance_x_population(c)
             vy == OnlineCovariance_variance_y_population(c)
             w  == Mul(vx, vy)
         IN  IF SqrtIsNaN(w) \/ SqrtLe(w, c.eps_) THEN ZNaN
             ELSE MulInvSqrt(OnlineCovariance_covariance_population(c), w)

\* Mutant: the cross moments are added without the between-parts term.
OnlineCovariance_merge_nocross(c, other) ==
    IF other.n_ = 0 THEN c
    ELSE IF c.n_ = 0 THEN other
    ELSE
      LET n_a   == c.n_
          n_b   == other.n_
          n     == n_a + n_b
          dx    == Sub(other.mean_x_, c.mean_x_)
          dy    == Sub(other.mean_y_, c.mean_y_)
          n_a_t == ToT(n_a)
          n_b_t == ToT(n_b)
          n_t   == ToT(n)
          w     == Div(Mul(n_a_t, n_b_t), n_t)
      IN  [c EXCEPT
             !.mean_x_ = Add(c.mean_x_, Mul(dx, Div(n_b_t, n_t))),
             !.mean_y_ = Add(c.mean_y_, Mul(dy, Div(n_b_t, n_t))),
             !.m2_x_   = Add(Add(c.m2_x_, other.m2_x_), Mul(Mul(dx, dx), w)),
             !.m2_y_   = Add(Add(c.m2_y_, other.m2_y_), Mul(Mul(dy, dy), w)),
             !.c_      = Add(c.c_, other.c_),
             !.n_      = n]

\* Mutant: the means move by the receiver's share n_a/n, not other's n_b/n.
OnlineCovariance_merge_ownshare(c, other) ==
    IF other.n_ = 0 THEN c
    ELSE IF c.n_ = 0 THEN other
    ELSE
      LET n_a   == c.n_
          n_b   == other.n_
          n     == n_a + n_b
          dx    == Sub(other.mean_x_, c.mean_x_)
          dy    == Sub(other.mean_y_, c.mean_y_)
          n_a_t == ToT(n_a)
          n_b_t == ToT(n_b)
          n_t   == ToT(n)
          w     == Div(Mul(n_a_t, n_b_t), n_t)
      IN  [c EXCEPT
             !.mean_x_ = Add(c.mean_x_, Mul(dx, Div(n_a_t, n_t))),
             !.mean_y_ = Add(c.mean_y_, Mul(dy, Div(n_a_t, n_t))),
             !.m2_x_   = Add(Add(c.m2_x_, other.m2_x_), Mul(Mul(dx, dx), w)),
             !.m2_y_   = Add(Add(c.m2_y_, other.m2_y_), Mul(Mul(dy, dy), w)),
             !.c_      = Add(Add(c.c_, other.c_), Mul(Mul(dx, dy), w)),
             !.n_      = n]

OnlineCovariance_merge(c, other) ==
    IF other.n_ = 0 THEN c
    ELSE IF c.n_ = 0 THEN other
    ELSE
      LET n_a   == c.n_
          n_b   == other.n_
          n     == n_a + n_b
          dx    == Sub(other.mean_x_, c.mean_x_)
          dy    == Sub(other.mean_y_, c.mean_y_)
          n_a_t == ToT(n_a)
          n_b_t == ToT(n_b)
          n_t   == ToT(n)
          w     == Div(Mul(n_a_t, n_b_t), n_t)
      IN  [c EXCEPT
             !.mean_x_ = Add(c.mean_x_, Mul(dx, Div(n_b_t, n_t))),
             !.mean_y_ = Add(c.mean_y_, Mul(dy, Div(n_b_t, n_t))),
             !.m2_x_   = Add(Add(c.m2_x_, other.m2_x_), Mul(Mul(dx, dx), w)),
             !.m2_y_   = Add(Add(c.m2_y_, other.m2_y_), Mul(Mul(dy, dy), w)),
             !.c_      = Add(Add(c.c_, other.c_), Mul(Mul(dx, dy), w)),
             !.n_      = n]

\* ------------------------------------------------------------------- state
VARIABLES
    scaler,     \* the OnlineStandardScaler of each client
    paired,     \* the OnlineCovariance of each client
    acc,        \* split-and-merge run: per part (and "all") a RunningStats
                \* and an OnlineCovariance
    seen,       \* single-client runs: the stream of (x, y) pairs client "a"
                \* observed since construction or its last reset
    turn,       \* split-and-merge run: index of the part being filled,
                \* Len(Parts) + 1 once the parts are being merged
    consumed,   \* split-and-merge run: parts already merged into another
    last        \* the last call: its name, receiver, arguments and result

vars == <<scaler, paired, acc, seen, turn, consumed, last>>

(* A client owns one scaler and one paired accumulator and feeds them the  *)
(* same stream: x to the scaler, (x, y) to the paired accumulator.         *)
Pool  == {"a", "b"}
Parts == <<"a", "b", "c">>
PartNames == {Parts[i] : i \in 1..Len(Parts)}

\* Inputs: finite pairs on the scale of eps_, and pairs holding NaN or +inf.
FinPairs == {<<Rat(0, 1), Rat(0, 1)>>, <<Rat(2, 1), Rat(2, 1)>>,
             <<Rat(1, 1), Rat(1, 1)>>, <<Rat(1, 1), Rat(4, 1)>>}
Pairs    == FinPairs \cup {<<NaN, Rat(1, 1)>>, <<PInf, NaN>>}

NoCall == [op |-> "none", who |-> "none"]

Init ==
    /\ scaler   = [o \in Pool |-> OnlineStandardScaler_init]
    /\ paired   = [o \in Pool |-> OnlineCovariance_init]
    /\ acc      = [o \in PartNames \cup {"all"} |->
                      [rs |-> RunningStats_init, cov |-> OnlineCovariance_init]]
    /\ seen     = <<>>
    /\ turn     = 1
    /\ consumed = {}
    /\ last     = NoCall

\* ------------------------------------------------ two clients (Spec)
(* Two clients observe, merge into one another and reset, in any order.   *)
PoolTotal ==
    OnlineCovariance_count(paired["a"]) + OnlineCovariance_count(paired["b"])

PoolFrame == UNCHANGED <<acc, seen, turn, consumed>>

Observe(o, x, y) ==
    /\ PoolTotal < MaxCount
    /\ scaler' = [scaler EXCEPT ![o] = OnlineStandardScaler_observe(@, x)]
    /\ paired' = [paired EXCEPT ![o] = OnlineCovariance_observe(@, x, y)]
    /\ last' = [op |-> "observe", who |-> o, x |-> x, y |-> y,
                was  |-> OnlineStandardScaler_ready(scaler[o]),
                pwas |-> OnlineCovariance_ready(paired[o])]
    /\ PoolFrame

Merge(o, other) ==
    /\ o # other
    /\ OnlineCovariance_count(paired[o])
         + OnlineCovariance_count(paired[other]) <= MaxCount
    /\ scaler' = [scaler EXCEPT
                    ![o] = OnlineStandardScaler_merge(@, scaler[other])]
    /\ paired' = [paired EXCEPT
                    ![o] = OnlineCovariance_merge(@, paired[other])]
    /\ last' = [op |-> "merge", who |-> o, other |-> other,
                was  |-> OnlineStandardScaler_ready(scaler[o]),
                pwas |-> OnlineCovariance_ready(paired[o])]
    /\ PoolFrame

Reset(o) ==
    /\ scaler' = [scaler EXCEPT ![o] = OnlineStandardScaler_reset(@)]
    /\ paired' = [paired EXCEPT ![o] = OnlineCovariance_reset(@)]
    /\ last' = [op |-> "reset", who |-> o,
                was  |-> OnlineStandardScaler_ready(scaler[o]),
                pwas |-> OnlineCovariance_ready(paired[o])]
    /\ PoolFrame

Next ==
    \/ \E o \in Pool, xy \in Pairs : Observe(o, xy[1], xy[2])
    \/ \E o, other \in Pool : Merge(o, other)
    \/ \E o \in Pool : Reset(o)

Spec == Init /\ [][Next]_vars

\* ------------------------- two clients, whole finite range (SpecExtreme)
(* The two clients of Spec observing finite values only, among them a      *)
(* value and its negative that are well inside the finite range of T while *)
(* their difference is beyond it (for double, 1e308 and -1e308).           *)
Huge == Rat((3 * MaxFinite) \div 5, 1)
MinusHuge == Neg(Huge)

ExtremePairs == {<<Rat(0, 1), Rat(0, 1)>>, <<Rat(2, 1), Rat(1, 1)>>,
                 <<Huge, MinusHuge>>, <<MinusHuge, Huge>>}

NextExtreme ==
    \/ \E o \in Pool, xy \in ExtremePairs : Observe(o, xy[1], xy[2])
    \/ \E o, other \in Pool : Merge(o, other)
    \/ \E o \in Pool : Reset(o)

SpecExtreme == Init /\ [][NextExtreme]_vars

\* ------------------------------------- split-and-merge run (SpecSplit)
(* The tests' scenario "merge equals push-all-at-once", with three parts:  *)
(* a stream of finite pairs is observed into the parts in turn ([0,k1)     *)
(* into a, [k1,k2) into b, [k2,n) into c) and, whole, into "all"; then the *)
(* parts are merged into one another in any order, each at most once.      *)
SplitFrame == UNCHANGED <<scaler, paired>>

SplitPairs == {<<Rat(0, 1), Rat(0, 1)>>, <<Rat(2, 1), Rat(2, 1)>>,
               <<Rat(1, 1), Rat(4, 1)>>}

Merging == turn = Len(Parts) + 1

SplitObserve(x, y) ==
    /\ ~Merging
    /\ acc["all"].rs.n_ < MaxCount
    /\ LET o  == Parts[turn]
           ob == [a \in {o, "all"} |->
                    [rs  |-> RunningStats_push(acc[a].rs, x),
                     cov |-> OnlineCovariance_observe(acc[a].cov, x, y)]]
       IN  /\ acc' = [acc EXCEPT ![o] = ob[o], !["all"] = ob["all"]]
           /\ last' = [op |-> "observe", who |-> o]
    /\ UNCHANGED <<seen, turn, consumed>>
    /\ SplitFrame

\* The split point: the next part is filled from here on.
SplitNextPart ==
    /\ ~Merging
    /\ turn' = turn + 1
    /\ last' = NoCall
    /\ UNCHANGED <<acc, seen, consumed>>
    /\ SplitFrame

SplitMerge(o, other) ==
    /\ Merging
    /\ o # other /\ o \notin consumed /\ other \notin consumed
    /\ acc' = [acc EXCEPT ![o] =
                 [rs  |-> RunningStats_merge(acc[o].rs, acc[other].rs),
                  cov |-> OnlineCovariance_merge(acc[o].cov, acc[other].cov)]]
    /\ consumed' = consumed \cup {other}
    /\ last' = [op |-> "merge", who |-> o, other |-> other]
    /\ UNCHANGED <<seen, turn>>
    /\ SplitFrame

NextSplit ==
    \/ \E xy \in SplitPairs : SplitObserve(xy[1], xy[2])
    \/ SplitNextPart
    \/ \E o, other \in PartNames : SplitMerge(o, other)

SpecSplit == Init /\ [][NextSplit]_vars

\* ------------------------------------- single-pass run (SpecSinglePass)
(* The tests' scenario "matches naive": client "a" observes a stream,      *)
(* which is kept for the two-pass reference computation.                   *)
StreamPairs == {<<Rat(1, 1), Rat(2, 1)>>, <<Rat(2, 1), Rat(1, 1)>>,
                <<Rat(3, 1), Rat(3, 1)>>, <<Rat(4, 1), Rat(5, 1)>>,
                <<Rat(5, 1), Rat(4, 1)>>}

SinglePassObserve(x, y) ==
    /\ Len(seen) < MaxStream
    /\ scaler' = [scaler EXCEPT !["a"] = OnlineStandardScaler_observe(@, x)]
    /\ paired' = [paired EXCEPT !["a"] = OnlineCovariance_observe(@, x, y)]
    /\ seen' = Append(seen, <<x, y>>)
    /\ last' = [op |-> "observe", who |-> "a"]
    /\ UNCHANGED <<acc, turn, consumed>>

NextSinglePass == \E xy \in StreamPairs : SinglePassObserve(xy[1], xy[2])

SpecSinglePass == Init /\ [][NextSinglePass]_vars

\* The two-pass reference of the tests.
RECURSIVE SumSeq(_)
SumSeq(xs) == IF xs = <<>> THEN Zero ELSE Add(Head(xs), SumSeq(Tail(xs)))

naive_mean(xs) == Div(SumSeq(xs), ToT(Len(xs)))

\* The sum over xs of (x - mu)^2.
SumSqDev(xs, mu) ==
    SumSeq([i \in 1..Len(xs) |-> Mul(Sub(xs[i], mu), Sub(xs[i], mu))])

naive_sample_var(xs) ==
    IF Len(xs) < 2 THEN NaN
    ELSE Div(SumSqDev(xs, naive_mean(xs)), ToT(Len(xs) - 1))

\* The sum over i of (xs[i] - mx) * (ys[i] - my).
SumCrossDev(xs, ys, mx, my) ==
    SumSeq([i \in 1..Len(xs) |-> Mul(Sub(xs[i], mx), Sub(ys[i], my))])

naive_cov_population(xs, ys) ==
    IF xs = <<>> THEN NaN
    ELSE Div(SumCrossDev(xs, ys, naive_mean(xs), naive_mean(ys)), ToT(Len(xs)))

naive_cov_sample(xs, ys) ==
    IF Len(xs) < 2 THEN NaN
    ELSE Div(SumCrossDev(xs, ys, naive_mean(xs), naive_mean(ys)),
             ToT(Len(xs) - 1))

SeenX == [i \in 1..Len(seen) |-> seen[i][1]]
SeenY == [i \in 1..Len(seen) |-> seen[i][2]]

\* --------------------------------------------- one client (SpecCalls)
(* Client "a" uses the whole interface of its scaler and of its paired     *)
(* accumulator: scalar and batch observe, reset, transform and             *)
(* transform_inplace.  A batch is passed as pointers (null or not) and a   *)
(* length; both objects are handed the same arrays.                        *)
CallPairs == {<<Rat(0, 1), Rat(0, 1)>>, <<Rat(2, 1), Rat(2, 1)>>,
              <<NaN, Rat(1, 1)>>}

Batches == {<<>>,
            <<<<Rat(2, 1), Rat(2, 1)>>>>,
            <<<<Rat(0, 1), Rat(0, 1)>>, <<Rat(2, 1), Rat(2, 1)>>>>,
            <<<<Rat(2, 1), Rat(2, 1)>>, <<NaN, Rat(1, 1)>>>>}

Buffers == {<<>>, <<Rat(1, 1)>>, <<Rat(0, 1), Rat(2, 1)>>, <<Rat(2, 1), NaN>>}

TransformVals == {Rat(0, 1), Rat(1, 1), Rat(2, 1), NaN, PInf}

\* A length a caller may pass along with a null pointer.
NullLens == {0, 2}

Xs(ps) == [i \in 1..Len(ps) |-> ps[i][1]]
Ys(ps) == [i \in 1..Len(ps) |-> ps[i][2]]

RECURSIVE StreamObserve(_, _, _)
\* The stream client: for (x : data) scaler.observe(x), over the first k values.
StreamObserve(sc, xs, k) ==
    IF k = 0 THEN sc
    ELSE OnlineStandardScaler_observe(StreamObserve(sc, xs, k - 1), xs[k])

RECURSIVE StreamObservePairs(_, _, _, _)
\* The same for pairs: k calls of observe(xs[i], ys[i]).
StreamObservePairs(c, xs, ys, k) ==
    IF k = 0 THEN c
    ELSE OnlineCovariance_observe(StreamObservePairs(c, xs, ys, k - 1),
                                  xs[k], ys[k])

CallFrame == UNCHANGED <<acc, turn, consumed>>

CallObserve(x, y) ==
    /\ Len(seen) < MaxCount
    /\ scaler' = [scaler EXCEPT !["a"] = OnlineStandardScaler_observe(@, x)]
    /\ paired' = [paired EXCEPT !["a"] = OnlineCovariance_observe(@, x, y)]
    /\ seen' = Append(seen, <<x, y>>)
    /\ last' = [op |-> "observe", who |-> "a", x |-> x, y |-> y]
    /\ CallFrame

\* scaler.observe(xs, n); paired.observe(xs, ys, n) with both pointers valid.
CallObserveBatch(ps) ==
    /\ Len(seen) + Len(ps) <= MaxCount
    /\ scaler' = [scaler EXCEPT !["a"] =
                    OnlineStandardScaler_observe_batch(@, FALSE, Xs(ps), Len(ps))]
    /\ paired' = [paired EXCEPT !["a"] =
                    OnlineCovariance_observe_batch(@, FALSE, FALSE,
                                                   Xs(ps), Ys(ps), Len(ps))]
    /\ seen' = seen \o ps
    /\ last' = [op |-> "observe_batch", who |-> "a", xnull |-> FALSE,
                ynull |-> FALSE, ps |-> ps, n |-> Len(ps)]
    /\ CallFrame

\* scaler.observe(nullptr, n); paired.observe(nullptr, ys, n), ys null or not.
CallObserveNullX(ynull, n) ==
    /\ scaler' = [scaler EXCEPT !["a"] =
                    OnlineStandardScaler_observe_batch(@, TRUE, <<>>, n)]
    /\ paired' = [paired EXCEPT !["a"] =
                    OnlineCovariance_observe_batch(@, TRUE, ynull, <<>>, <<>>, n)]
    /\ last' = [op |-> "observe_batch", who |-> "a", xnull |-> TRUE,
                ynull |-> ynull, ps |-> <<>>, n |-> n]
    /\ UNCHANGED seen
    /\ CallFrame

\* paired.observe(xs, nullptr, n) alone.
CallObserveNullY(ps) ==
    /\ paired' = [paired EXCEPT !["a"] =
                    OnlineCovariance_observe_batch(@, FALSE, TRUE,
                                                   Xs(ps), <<>>, Len(ps))]
    /\ last' = [op |-> "observe_batch_y", who |-> "a", xnull |-> FALSE,
                ynull |-> TRUE, ps |-> ps, n |-> Len(ps)]
    /\ UNCHANGED <<scaler, seen>>
    /\ CallFrame

CallReset ==
    /\ scaler' = [scaler EXCEPT !["a"] = OnlineStandardScaler_reset(@)]
    /\ paired' = [paired EXCEPT !["a"] = OnlineCovariance_reset(@)]
    /\ seen' = <<>>
    /\ last' = [op |-> "reset", who |-> "a"]
    /\ CallFrame

CallTransform(x) ==
    /\ last' = [op |-> "transform", who |-> "a", x |-> x,
                ret |-> OnlineStandardScaler_transform(scaler["a"], x)]
    /\ UNCHANGED <<scaler, paired, seen>>
    /\ CallFrame

\* The caller's buffer holds xs before the call and last.buf after it.
CallTransformInplace(null, xs, n) ==
    /\ last' = [op |-> "transform_inplace", who |-> "a", null |-> null,
                xs |-> xs, n |-> n,
                buf |-> OnlineStandardScaler_transform_inplace(
                           scaler["a"], null,
                           [i \in 1..Len(xs) |-> Plain(xs[i])], n)]
    /\ UNCHANGED <<scaler, paired, seen>>
    /\ CallFrame

NextCalls ==
    \/ \E xy \in CallPairs : CallObserve(xy[1], xy[2])
    \/ \E ps \in Batches : CallObserveBatch(ps)
    \/ \E ynull \in BOOLEAN, n \in NullLens : CallObserveNullX(ynull, n)
    \/ \E ps \in Batches : CallObserveNullY(ps)
    \/ CallReset
    \/ \E x \in TransformVals : CallTransform(x)
    \/ \E xs \in Buffers : \E n \in 0..Len(xs) : CallTransformInplace(FALSE, xs, n)
    \/ \E n \in NullLens : CallTransformInplace(TRUE, <<>>, n)

SpecCalls == Init /\ [][NextCalls]_vars

\* ------------------------------------------------------- shared predicates
\* Every field of a RunningStats / an OnlineCovariance is a finite number.
FiniteStats(s) == IsFinite(s.mean_) /\ IsFinite(s.m2_)

FiniteCov(c) ==
    /\ IsFinite(c.mean_x_) /\ IsFinite(c.mean_y_)
    /\ IsFinite(c.m2_x_) /\ IsFinite(c.m2_y_) /\ IsFinite(c.c_)

\* m2 / n > eps^2, written without the division.
AboveFloor(m2, n, eps) == Lt(Mul(Mul(eps, eps), ToT(n)), m2)

\* ---------------------------------------------------------------------- C4
(* C4 as stated: readiness is monotone under observe.  Every observe call  *)
(* made on a scaler whose ready() is true leaves ready() true.             *)
C4_ReadyKeptByObserve ==
    [][\A o \in Pool :
          (last'.op = "observe" /\ last'.who = o
             /\ OnlineStandardScaler_ready(scaler[o]))
          => OnlineStandardScaler_ready(scaler'[o])]_vars

(* C4 amended: an observe(x) on a ready scaler raises count by one; for a  *)
(* finite x it does not lower m2, so ready() stays true whenever m2 was    *)
(* above eps^2 * (count + 1) before the call, and may turn false otherwise;*)
(* for x NaN or infinite ready() turns false.                              *)
C4_ObserveKeepsReadyAboveFloor ==
    [][\A o \in Pool :
          (last'.op = "observe" /\ last'.who = o
             /\ OnlineStandardScaler_ready(scaler[o]))
          => LET s == scaler[o].stats_
                 t == scaler'[o].stats_
             IN  /\ t.n_ = s.n_ + 1
                 /\ IsFinite(last'.x) =>
                      /\ Le(s.m2_, t.m2_)
                      /\ AboveFloor(s.m2_, s.n_ + 1, scaler[o].eps_)
                           => OnlineStandardScaler_ready(scaler'[o])
                 /\ ~IsFinite(last'.x) => ~OnlineStandardScaler_ready(scaler'[o])
      ]_vars

\* A ready scaler observed a finite value and is still ready, with count 4.
C4_Witness ==
    /\ last.op = "observe" /\ last.was /\ IsFinite(last.x)
    /\ OnlineStandardScaler_ready(scaler[last.who])
    /\ OnlineStandardScaler_count(scaler[last.who]) = MaxCount

\* ---------------------------------------------------------------------- C5
(* C5 as stated: merge never un-readies.  Every merge(other) made on a     *)
(* scaler, or a paired accumulator, whose ready() is true leaves ready()   *)
(* true, whatever reachable state other is in.                             *)
C5_ReadyKeptByMerge ==
    [][\A o \in Pool :
          (last'.op = "merge" /\ last'.who = o)
          => /\ OnlineStandardScaler_ready(scaler[o])
                  => OnlineStandardScaler_ready(scaler'[o])
             /\ OnlineCovariance_ready(paired[o])
                  => OnlineCovariance_ready(paired'[o])]_vars

(* C5 amended: merge(other) on a ready accumulator adds other's count; if  *)
(* other holds finite moments the second moments do not decrease, so       *)
(* ready() stays true whenever each second moment was above eps^2 times    *)
(* the combined count before the call (always so when other is empty),     *)
(* and may turn false otherwise; if other is non-empty and holds a NaN     *)
(* second moment ready() turns false.                                      *)
C5_MergeKeepsReadyAboveFloor ==
    [][\A o \in Pool :
          (last'.op = "merge" /\ last'.who = o)
          => LET s  == scaler[o].stats_
                 b  == scaler[last'.other].stats_
                 t  == scaler'[o].stats_
                 c  == paired[o]
                 d  == paired[last'.other]
                 e  == paired'[o]
             IN  /\ OnlineStandardScaler_ready(scaler[o]) =>
                      /\ t.n_ = s.n_ + b.n_
                      /\ FiniteStats(b) =>
                           /\ Le(s.m2_, t.m2_)
                           /\ AboveFloor(s.m2_, s.n_ + b.n_, scaler[o].eps_)
                                => OnlineStandardScaler_ready(scaler'[o])
                      /\ (b.n_ > 0 /\ isnan(b.m2_))
                           => ~OnlineStandardScaler_ready(scaler'[o])
                 /\ OnlineCovariance_ready(c) =>
                      /\ e.n_ = c.n_ + d.n_
                      /\ FiniteCov(d) =>
                           /\ Le(c.m2_x_, e.m2_x_) /\ Le(c.m2_y_, e.m2_y_)
                           /\ (/\ AboveFloor(c.m2_x_, c.n_ + d.n_, c.eps_)
                               /\ AboveFloor(c.m2_y_, c.n_ + d.n_, c.eps_))
                                => OnlineCovariance_ready(e)
                      /\ (d.n_ > 0 /\ (isnan(d.m2_x_) \/ isnan(d.m2_y_)))
                           => ~OnlineCovariance_ready(e)
      ]_vars

\* A ready scaler and paired accumulator merged a non-empty finite other
\* whose mean differs, and both are still ready.
C5_Witness ==
    /\ last.op = "merge" /\ last.was /\ last.pwas
    /\ OnlineStandardScaler_count(scaler[last.other]) > 0
    /\ FiniteStats(scaler[last.other].stats_)
    /\ scaler[last.other].stats_.mean_ # scaler[last.who].stats_.mean_
    /\ OnlineStandardScaler_ready(scaler[last.who])
    /\ OnlineCovariance_ready(paired[last.who])

\* ---------------------------------------------------------------------- C6
(* C6: in every reachable state of a paired accumulator, ready() true      *)
(* implies that correlation() is not NaN.                                  *)
C6_ReadyImpliesCorrelation ==
    \A o \in Pool :
        OnlineCovariance_ready(paired[o])
          => ~isnan(OnlineCovariance_correlation(paired[o]))

\* ---------------------------------------------------------------------- C7
\* Every observation client "a" made since its last reset has the same x.
AllIdentical ==
    \A i \in 1..Len(seen) : \A j \in 1..Len(seen) : seen[i][1] = seen[j][1]

(* C7: not-ready NaN policy of the scaler.  After 0 observations, after 1, *)
(* or after any number of observations of one and the same value, ready()  *)
(* is false, transform(x) is NaN for every x, and transform_inplace over   *)
(* n >= 1 elements of a buffer leaves NaN in each of them; the same is     *)
(* true of the values the calls that were made returned.                   *)
C7_NotReadyNaNPolicy ==
    (Len(seen) <= 1 \/ AllIdentical) =>
        LET sc == scaler["a"] IN
        /\ ~OnlineStandardScaler_ready(sc)
        /\ \A x \in TransformVals : isnan(OnlineStandardScaler_transform(sc, x))
        /\ \A xs \in Buffers : \A n \in 1..Len(xs) : \A i \in 1..n :
              isnan(OnlineStandardScaler_transform_inplace(
                        sc, FALSE, [k \in 1..Len(xs) |-> Plain(xs[k])], n)[i])
        /\ last.op = "transform" => isnan(last.ret)
        /\ (last.op = "transform_inplace" /\ ~last.null) =>
              \A i \in 1..last.n : isnan(last.buf[i])

\* Two observations of the value 2, then transform_inplace over both elements
\* of a buffer that held 0 and 2: both are NaN now.
C7_Witness ==
    /\ Len(seen) = 2 /\ AllIdentical /\ seen[1][1] = Rat(2, 1)
    /\ OnlineStandardScaler_count(scaler["a"]) = 2
    /\ last.op = "transform_inplace" /\ ~last.null /\ last.n = 2
    /\ last.xs = <<Rat(0, 1), Rat(2, 1)>>
    /\ isnan(last.buf[1]) /\ isnan(last.buf[2])

\* ---------------------------------------------------------------------- C8
(* C8: in every reachable state of a paired accumulator in which ready()   *)
(* is false, correlation() is NaN.                                         *)
C8_NotReadyCorrelationNaN ==
    \A o \in Pool :
        ~OnlineCovariance_ready(paired[o])
          => isnan(OnlineCovariance_correlation(paired[o]))

\* Not ready with two observations whose y spread alone would pass the
\* denominator guard: x varies too little, and correlation() is NaN.
C8_Witness ==
    \E o \in Pool :
        /\ OnlineCovariance_count(paired[o]) = 2
        /\ FiniteCov(paired[o])
        /\ ~OnlineCovariance_ready(paired[o])
        /\ Sgn(paired[o].m2_x_) > 0
        /\ ~SqrtLe(Mul(OnlineCovariance_variance_x_population(paired[o]),
                       OnlineCovariance_variance_y_population(paired[o])),
                   paired[o].eps_)
        /\ isnan(OnlineCovariance_correlation(paired[o]))

\* ---------------------------------------------------------------------- C1
\* Every part but o has been merged away or never received a value.
SoleHolder(o) ==
    \A q \in PartNames \ {o} : q \in consumed \/ acc[q].rs.n_ = 0

(* C1: RunningStats merge equals single pass.  Once the parts of a split   *)
(* stream have been merged into one accumulator, that accumulator has the  *)
(* count, mean and m2, hence the population and sample variance, of the    *)
(* accumulator "all" into which the whole stream was pushed; for every     *)
(* split point, empty parts included.                                      *)
C1_MergeEqualsSinglePass ==
    \A o \in PartNames :
        (last.op = "merge" /\ last.who = o /\ SoleHolder(o))
        => /\ acc[o].rs.n_    = acc["all"].rs.n_
           /\ acc[o].rs.mean_ = acc["all"].rs.mean_
           /\ acc[o].rs.m2_   = acc["all"].rs.m2_
           /\ RunningStats_variance_population(acc[o].rs)
                = RunningStats_variance_population(acc["all"].rs)
           /\ RunningStats_variance_sample(acc[o].rs)
                = RunningStats_variance_sample(acc["all"].rs)

\* a.merge(b) of two non-empty parts with different means made a the sole
\* holder of a stream of MaxCount values with a positive m2.
C1_Witness ==
    /\ last.op = "merge" /\ SoleHolder(last.who)
    /\ acc[last.other].rs.n_ > 0
    /\ acc[last.who].rs.n_ > acc[last.other].rs.n_
    /\ acc[last.who].rs.n_ = MaxCount
    /\ acc[last.who].rs.mean_ # acc[last.other].rs.mean_
    /\ Sgn(acc[last.who].rs.m2_) > 0

\* ---------------------------------------------------------------------- C2
(* C2: OnlineCovariance merge equals single pass.  Once the parts of a     *)
(* split stream of pairs have been merged into one accumulator, it has the *)
(* count, both means, both second moments and the cross moment, hence the  *)
(* covariances and the correlation, of the accumulator "all" that observed *)
(* the whole stream.                                                       *)
C2_PairedMergeEqualsSinglePass ==
    \A o \in PartNames :
        (last.op = "merge" /\ last.who = o /\ SoleHolder(o))
        => /\ acc[o].cov = acc["all"].cov
           /\ OnlineCovariance_covariance_population(acc[o].cov)
                = OnlineCovariance_covariance_population(acc["all"].cov)
           /\ OnlineCovariance_covariance_sample(acc[o].cov)
                = OnlineCovariance_covariance_sample(acc["all"].cov)
           /\ OnlineCovariance_correlation(acc[o].cov)
                = OnlineCovariance_correlation(acc["all"].cov)

\* Two non-empty parts with different means in x and in y were merged into
\* the sole holder of MaxCount pairs, whose cross moment is not zero.
C2_Witness ==
    /\ last.op = "merge" /\ SoleHolder(last.who)
    /\ acc[last.other].cov.n_ > 0
    /\ acc[last.who].cov.n_ > acc[last.other].cov.n_
    /\ acc[last.who].cov.n_ = MaxCount
    /\ acc[last.who].cov.mean_x_ # acc[last.other].cov.mean_x_
    /\ acc[last.who].cov.mean_y_ # acc[last.other].cov.mean_y_
    /\ Sgn(acc[last.who].cov.c_) # 0

\* ---------------------------------------------------------------------- C3
(* C3: merge is associative and commutative.  For the three parts a, b, c  *)
(* of a split stream, before any of them is merged, (a merge b) merge c,   *)
(* a merge (b merge c) and (a merge c) merge b are the same accumulator,   *)
(* and a merge b is b merge a; for RunningStats and for OnlineCovariance.  *)
C3_MergeAssociativeCommutative ==
    consumed = {} =>
      LET a == acc["a"]  b == acc["b"]  c == acc["c"]
          R(s, t) == RunningStats_merge(s, t)
          P(s, t) == OnlineCovariance_merge(s, t)
      IN  /\ R(R(a.rs, b.rs), c.rs) = R(a.rs, R(b.rs, c.rs))
          /\ R(R(a.rs, b.rs), c.rs) = R(R(a.rs, c.rs), b.rs)
          /\ R(a.rs, b.rs) = R(b.rs, a.rs)
          /\ P(P(a.cov, b.cov), c.cov) = P(a.cov, P(b.cov, c.cov))
          /\ P(P(a.cov, b.cov), c.cov) = P(P(a.cov, c.cov), b.cov)
          /\ P(a.cov, b.cov) = P(b.cov, a.cov)

\* Three non-empty parts of different sizes and pairwise different means,
\* about to be merged.
C3_Witness ==
    /\ Merging /\ consumed = {}
    /\ \A o \in PartNames : acc[o].rs.n_ > 0
    /\ acc["c"].rs.n_ > acc["a"].rs.n_
    /\ acc["a"].rs.mean_ # acc["b"].rs.mean_
    /\ acc["b"].rs.mean_ # acc["c"].rs.mean_
    /\ acc["a"].rs.mean_ # acc["c"].rs.mean_
    /\ Sgn(acc["c"].cov.c_) # 0

\* ---------------------------------------------------------------------- C9
(* C9: degenerate merges.  a.merge(b) with b empty leaves every field of a *)
(* unchanged; a.merge(b) with a empty and b not makes count, means, second *)
(* moments and cross moment of a equal to b's; for RunningStats and for    *)
(* OnlineCovariance.                                                       *)
C9_DegenerateMerge ==
    [][\A o \in PartNames :
          (last'.op = "merge" /\ last'.who = o /\ consumed' # consumed)
          => LET b == acc[last'.other]
             IN  /\ b.rs.n_ = 0 => acc'[o].rs = acc[o].rs
                 /\ b.cov.n_ = 0 => acc'[o].cov = acc[o].cov
                 /\ (acc[o].rs.n_ = 0 /\ b.rs.n_ > 0) => acc'[o].rs = b.rs
                 /\ (acc[o].cov.n_ = 0 /\ b.cov.n_ > 0) =>
                      /\ acc'[o].cov.n_      = b.cov.n_
                      /\ acc'[o].cov.mean_x_ = b.cov.mean_x_
                      /\ acc'[o].cov.mean_y_ = b.cov.mean_y_
                      /\ acc'[o].cov.m2_x_   = b.cov.m2_x_
                      /\ acc'[o].cov.m2_y_   = b.cov.m2_y_
                      /\ acc'[o].cov.c_      = b.cov.c_
      ]_vars

\* Both cases in one run: an empty part was merged with a part holding a
\* spread of values and copied it, then merged with an empty part and kept it.
C9_Witness ==
    /\ last.op = "merge" /\ Cardinality(consumed) = 2
    /\ acc[last.other].rs.n_ = 0
    /\ \E q \in consumed : /\ acc[q].rs.n_ >= 2
                           /\ Sgn(acc[q].cov.c_) # 0
                           /\ acc[last.who] = acc[q]

\* --------------------------------------------------------------------- C10
(* C10: Welford push agrees with the two-pass reference.  After pushing a  *)
(* stream of n >= 1 finite values into an empty RunningStats, count is n,  *)
(* mean is the arithmetic mean of the stream and m2 the sum of squared     *)
(* deviations from it, so that variance_sample is m2 / (n - 1) for n >= 2; *)
(* and 1, 2, 3, 4, 5 gives count 5, mean 3 and variance_sample 5/2.        *)
C10_PushMatchesTwoPass ==
    LET s  == scaler["a"].stats_
        xs == SeenX
    IN  Len(xs) >= 1 =>
          /\ RunningStats_count(s) = Len(xs)
          /\ RunningStats_mean(s) = naive_mean(xs)
          /\ s.m2_ = SumSqDev(xs, naive_mean(xs))
          /\ Len(xs) >= 2 =>
               RunningStats_variance_sample(s) = naive_sample_var(xs)
          /\ xs = <<Rat(1, 1), Rat(2, 1), Rat(3, 1), Rat(4, 1), Rat(5, 1)>> =>
               /\ RunningStats_count(s) = 5
               /\ RunningStats_mean(s) = Rat(3, 1)
               /\ RunningStats_variance_sample(s) = Rat(5, 2)

\* The stream 1, 2, 3, 4, 5 has been pushed.
C10_Witness ==
    /\ SeenX = <<Rat(1, 1), Rat(2, 1), Rat(3, 1), Rat(4, 1), Rat(5, 1)>>
    /\ RunningStats_count(scaler["a"].stats_) = 5

\* --------------------------------------------------------------------- C11
(* C11: bivariate observe is exact.  After observing a stream of n >= 1    *)
(* finite pairs into an empty OnlineCovariance, count is n, the means are  *)
(* the arithmetic means, and the cross moment c_ is the sum over the pairs *)
(* of (x - mean_x)(y - mean_y) for the final means, so that                *)
(* covariance_population is that sum / n and covariance_sample that        *)
(* sum / (n - 1), as the two-pass reference computes them.                 *)
C11_ObserveMatchesTwoPass ==
    LET c  == paired["a"]
        xs == SeenX
        ys == SeenY
    IN  Len(seen) >= 1 =>
          /\ OnlineCovariance_count(c) = Len(seen)
          /\ OnlineCovariance_mean_x(c) = naive_mean(xs)
          /\ OnlineCovariance_mean_y(c) = naive_mean(ys)
          /\ c.c_ = SumCrossDev(xs, ys, naive_mean(xs), naive_mean(ys))
          /\ OnlineCovariance_covariance_population(c)
               = naive_cov_population(xs, ys)
          /\ OnlineCovariance_covariance_sample(c) = naive_cov_sample(xs, ys)

\* A stream of MaxStream pairs in which x and y are not in the same order,
\* with a cross moment that is neither zero nor the second moment of x.
C11_Witness ==
    /\ Len(seen) = MaxStream
    /\ OnlineCovariance_count(paired["a"]) = MaxStream
    /\ \E i \in 1..Len(seen) : seen[i][1] # seen[i][2]
    /\ Sgn(paired["a"].c_) # 0
    /\ paired["a"].c_ # paired["a"].m2_x_
    /\ IsFinite(OnlineCovariance_covariance_sample(paired["a"]))

\* --------------------------------------------------------------------- C12
(* C12: stream versus batch.  A batch observe over N values, given as      *)
(* pointer and length or as a container, leaves the scaler in the state    *)
(* that N scalar observe calls on the same values in the same order,       *)
(* starting from the same state, leave it in; and so for the paired        *)
(* accumulator with two sequences of N values.                             *)
C12_BatchEqualsStream ==
    [][(last'.op = "observe_batch" /\ ~last'.xnull /\ ~last'.ynull)
       => LET xs == Xs(last'.ps)
              ys == Ys(last'.ps)
              N  == last'.n
          IN  /\ scaler'["a"] = StreamObserve(scaler["a"], xs, N)
              /\ paired'["a"] = StreamObservePairs(paired["a"], xs, ys, N)
              /\ OnlineStandardScaler_observe_container(scaler["a"], xs)
                   = StreamObserve(scaler["a"], xs, N)
              /\ OnlineCovariance_observe_container(paired["a"], xs, ys)
                   = StreamObservePairs(paired["a"], xs, ys, N)
      ]_vars

\* A batch of two different values was observed by a client that had
\* observed one value before; the scaler is ready now.
C12_Witness ==
    /\ last.op = "observe_batch" /\ ~last.xnull /\ ~last.ynull /\ last.n = 2
    /\ last.ps[1] # last.ps[2]
    /\ Len(seen) = 3
    /\ OnlineStandardScaler_count(scaler["a"]) = 3
    /\ OnlineCovariance_count(paired["a"]) = 3
    /\ OnlineStandardScaler_ready(scaler["a"])

\* --------------------------------------------------------------------- C13
(* C13: transform_inplace is element-wise transform.  On a ready scaler,   *)
(* transform_inplace(xs, n) leaves in each of the first n elements exactly *)
(* what transform returns for the value the element held, computed from    *)
(* the statistics before the call, and leaves the other elements alone;    *)
(* neither transform nor transform_inplace changes the scaler, hence its   *)
(* count, mean and variance.                                               *)
C13_InplaceIsTransform ==
    [][/\ last'.op \in {"transform", "transform_inplace"}
          => /\ scaler' = scaler
             /\ OnlineStandardScaler_count(scaler'["a"])
                  = OnlineStandardScaler_count(scaler["a"])
             /\ OnlineStandardScaler_mean(scaler'["a"])
                  = OnlineStandardScaler_mean(scaler["a"])
             /\ RunningStats_variance_population(scaler'["a"].stats_)
                  = RunningStats_variance_population(scaler["a"].stats_)
       /\ (/\ last'.op = "transform_inplace" /\ ~last'.null
           /\ OnlineStandardScaler_ready(scaler["a"]))
          => \A i \in 1..Len(last'.xs) :
                last'.buf[i] =
                   IF i <= last'.n
                   THEN OnlineStandardScaler_transform(scaler["a"], last'.xs[i])
                   ELSE Plain(last'.xs[i])
      ]_vars

\* A ready scaler with a mean other than 0 transformed a buffer of two
\* different finite values in place: the results differ from each other and
\* from the old values, and are not NaN.
C13_Witness ==
    /\ last.op = "transform_inplace" /\ ~last.null /\ last.n = 2
    /\ OnlineStandardScaler_ready(scaler["a"])
    /\ Sgn(OnlineStandardScaler_mean(scaler["a"])) # 0
    /\ IsFinite(last.xs[1]) /\ IsFinite(last.xs[2])
    /\ ~isnan(last.buf[1]) /\ ~isnan(last.buf[2])
    /\ last.buf[1] # last.buf[2]
    /\ last.buf[1] # Plain(last.xs[1])

\* --------------------------------------------------------------------- C14
\* A non-empty RunningStats whose mean() and variance_population() are NaN.
HoldsNaN(s) ==
    /\ RunningStats_count(s) > 0
    /\ isnan(RunningStats_mean(s))
    /\ isnan(RunningStats_variance_population(s))

(* C14: NaN is absorbing.  A push of NaN, or a merge of an accumulator     *)
(* that holds NaN, leaves the RunningStats of the receiver with mean() and *)
(* variance_population() NaN and its scaler not ready; and an accumulator  *)
(* in that condition stays in it through every push and every merge, into  *)
(* it or of it into another.  Only reset() ends it.                        *)
C14_NaNAbsorbing ==
    [][\A o \in Pool :
          LET s       == scaler[o].stats_
              pushed  == /\ last'.op = "observe" /\ last'.who = o
                         /\ isnan(last'.x)
              merged  == /\ last'.op = "merge" /\ last'.who = o
                         /\ HoldsNaN(scaler[last'.other].stats_)
              isreset == last'.op = "reset" /\ last'.who = o
          IN  ((HoldsNaN(s) \/ pushed \/ merged) /\ ~isreset)
              => /\ HoldsNaN(scaler'[o].stats_)
                 /\ ~OnlineStandardScaler_ready(scaler'[o])
      ]_vars

\* A client that holds NaN among three values merged a client holding one
\* finite value, and holds NaN still.
C14_Witness ==
    /\ last.op = "merge"
    /\ HoldsNaN(scaler[last.who].stats_)
    /\ RunningStats_count(scaler[last.who].stats_) = MaxCount
    /\ RunningStats_count(scaler[last.other].stats_) = 1
    /\ IsFinite(RunningStats_mean(scaler[last.other].stats_))
    /\ ~OnlineStandardScaler_ready(scaler[last.who])

C16_ResetIsFresh ==
    [][\A o \in Pool :
          (last'.op = "reset" /\ last'.who = o)
          => /\ scaler'[o].stats_ = RunningStats_init
             /\ scaler'[o] = OnlineStandardScaler_init
             /\ paired'[o] = OnlineCovariance_init
             /\ OnlineStandardScaler_count(scaler'[o]) = 0
             /\ OnlineStandardScaler_mean(scaler'[o]) = Zero
             /\ scaler'[o].stats_.m2_ = Zero
             /\ OnlineCovariance_count(paired'[o]) = 0
             /\ ~OnlineStandardScaler_ready(scaler'[o])
             /\ ~OnlineCovariance_ready(paired'[o])
             /\ scaler'[o].eps_ = scaler[o].eps_
             /\ paired'[o].eps_ = paired[o].eps_
      ]_vars

\* A client whose scaler and paired accumulator were ready has been reset
\* and is as constructed, while the other client holds NaN.
C16_Witness ==
    /\ last.op = "reset" /\ last.was /\ last.pwas
    /\ scaler[last.who] = OnlineStandardScaler_init
    /\ paired[last.who] = OnlineCovariance_init
    /\ \E r \in Pool \ {last.who} : HoldsNaN(scaler[r].stats_)

\* --------------------------------------------------------------------- C17
(* C17: the second moment is never negative.  In every state reached by    *)
(* observe, merge and reset, m2 >= 0 holds for the RunningStats, and       *)
(* m2x >= 0 and m2y >= 0 for the OnlineCovariance.                         *)
C17_SecondMomentNonNegative ==
    \A o \in Pool :
        /\ Le(Zero, scaler[o].stats_.m2_)
        /\ Le(Zero, paired[o].m2_x_)
        /\ Le(Zero, paired[o].m2_y_)

\* --------------------------------------------------------------------- C18
(* C18: a degenerate batch is a no-op.  observe(xs, n) of the scaler with  *)
(* xs null, whatever n, or with n = 0, and observe(xs, ys, n) of the       *)
(* paired accumulator with xs null or ys null or n = 0, leave the object   *)
(* as it was, count and every accumulated field; transform_inplace(xs, n)  *)
(* with xs null or n = 0 writes nothing.                                   *)
C18_DegenerateBatchNoOp ==
    [][/\ (last'.op = "observe_batch" /\ (last'.xnull \/ last'.n = 0))
          => scaler' = scaler
       /\ (/\ last'.op \in {"observe_batch", "observe_batch_y"}
           /\ (last'.xnull \/ last'.ynull \/ last'.n = 0))
          => paired' = paired
       /\ (last'.op = "transform_inplace" /\ (last'.null \/ last'.n = 0))
          => /\ last'.buf = [i \in 1..Len(last'.xs) |-> Plain(last'.xs[i])]
             /\ scaler' = scaler
       /\ \A ps \in Batches : \A n \in NullLens :
             /\ OnlineStandardScaler_observe_batch(scaler["a"], TRUE, <<>>, n)
                  = scaler["a"]
             /\ OnlineStandardScaler_observe_batch(scaler["a"], FALSE, Xs(ps), 0)
                  = scaler["a"]
             /\ OnlineCovariance_observe_batch(paired["a"], FALSE, FALSE,
                                               Xs(ps), Ys(ps), 0) = paired["a"]
             /\ OnlineCovariance_observe_batch(paired["a"], TRUE, TRUE,
                                               <<>>, <<>>, n) = paired["a"]
      ]_vars

\* A ready client passed a null pointer with a length of 2 and is as it was:
\* ready, with the two observations it had.
C18_Witness ==
    /\ last.op = "observe_batch" /\ last.xnull /\ last.n = 2
    /\ Len(seen) = 2
    /\ OnlineStandardScaler_count(scaler["a"]) = 2
    /\ OnlineCovariance_count(paired["a"]) = 2
    /\ OnlineStandardScaler_ready(scaler["a"])
    /\ OnlineCovariance_ready(paired["a"])

\* --------------------------------------------------------------------- C19
(* C19: Cauchy-Schwarz.  In every state an OnlineCovariance reaches by     *)
(* observe and merge with finite inputs, in exact arithmetic,              *)
(* c * c <= m2x * m2y, and whenever correlation() is not NaN its value     *)
(* lies in [-1, 1].                                                        *)
C19_CauchySchwarz ==
    \A o \in PartNames \cup {"all"} :
        LET c == acc[o].cov
            r == OnlineCovariance_correlation(c)
        IN  /\ FiniteCov(c)
            /\ Le(Mul(c.c_, c.c_), Mul(c.m2_x_, c.m2_y_))
            /\ ~isnan(r) => InUnitInterval(r)

\* After a merge, the holder of a stream of three pairs that are not on a
\* line: c * c is strictly below m2x * m2y, and correlation() is a number
\* strictly between 0 and 1.
C19_Witness ==
    /\ last.op = "merge"
    /\ LET c == acc[last.who].cov
           r == OnlineCovariance_correlation(c)
       IN  /\ acc[last.other].cov.n_ > 0
           /\ c.n_ >= 3
           /\ Lt(Mul(c.c_, c.c_), Mul(c.m2_x_, c.m2_y_))
           /\ ~isnan(r) /\ InUnitInterval(r)
           /\ Sgn(Val(r)) > 0
           /\ Lt(Mul(Val(r), Val(r)), r.v)

====
